---- MODULE Spec2Model ----
(***************************************************************************)
(* Model of the newsclipping-finetune data pipeline:                       *)
(*   src/sharding.py           shard_dataset (shards + parquet index)      *)
(*   src/src/ingestion.py      load_json_as_dict, normalize_entry,         *)
(*                             iter_entries                                *)
(*   src/src/preprocessing.py  clean_text, preprocess_entry,               *)
(*                             chunked_iter, main                          *)
(* Strings whose characters matter (keys, file names, captions) are        *)
(* sequences of one-character strings, so concatenation and formatting     *)
(* are computed and not assumed.                                           *)
(***************************************************************************)
EXTENDS Integers, Sequences, FiniteSets, TLC

\* ------------------------------------------------------------------ bounds
MaxLen == 4       \* records in the input list of shard_dataset
MaxSps == 3       \* largest samples_per_shard tried
MaxFlush == 3     \* largest parquet_flush_amount tried
MaxAssets == 2    \* records in data.json
MaxAnn == 2       \* annotations in split.json
MaxStr == 4       \* characters in a caption
MaxClean == 2     \* applications of clean_text in a row
MaxEntries == 4   \* entries in the stream main reads
MaxChunk == 3     \* largest chunk size tried

\* ------------------------------------------------------------ shard_dataset
VARIABLES
    preprocessed,           \* argument: parquet input (TRUE) or json + files
    samples_per_shard,      \* argument
    parquet_flush_amount,   \* argument
    len_data,               \* len(data)
    i,                      \* number of records the for loop has taken
    index_records,          \* the in-memory index buffer
    shard_idx,
    in_shard,
    tars,                   \* every TarWriter opened, in order of opening
    sink,                   \* the open TarWriter: a position in tars
    parquets,               \* every to_parquet call, in order
    pc                      \* "loop" | "done"

shardVars == <<preprocessed, samples_per_shard, parquet_flush_amount, len_data,
               i, index_records, shard_idx, in_shard, tars, sink, parquets, pc>>

\* ------------------------------------------------------------- iter_entries
VARIABLES
    raw_assets,     \* what json.load returns for data.json: a list or one object
    data_dict,      \* load_json_as_dict's mapping
    fs,             \* the image paths (relative to root_dir) that exist
    n_ann,          \* len(annotations)
    n_seen,         \* annotations the for loop has taken
    ann,            \* the annotation being handled
    norm,           \* what normalize_entry did for it
    n_yielded,      \* entries yielded so far
    score_dist,
    ing_pc          \* "iter" | "done" | "raised"

ingestVars == <<raw_assets, data_dict, fs, n_ann, n_seen, ann, norm, n_yielded,
                score_dist, ing_pc>>

\* ------------------------------------------------- preprocess_entry, clean_text
VARIABLES
    entry,          \* the argument of preprocess_entry
    decodable,      \* the image paths PIL can open and convert
    output,         \* what preprocess_entry returned
    cleaned,        \* clean_text applied again and again to entry's caption
    pre_pc          \* "entry" | "returned"

preVars == <<entry, decodable, output, cleaned, pre_pc>>

\* ----------------------------------------- main of preprocessing, chunked_iter
VARIABLES
    main_entries,      \* every entry iter_entries will yield, in order
    iterator,       \* what the iterator inside chunked_iter has left
    size,           \* chunked_iter's chunk size
    batches,        \* the batches chunked_iter has yielded
    partitions,      \* every write_parquet call, in order
    main_shard_idx, \* main's shard_idx
    main_pc         \* "loop" | "done"

mainVars == <<main_entries, iterator, size, batches, partitions, main_shard_idx, main_pc>>

vars == <<shardVars, ingestVars, preVars, mainVars>>

\* ======================================================= src/sharding.py

\* The values of ex['source'] and ex['id'] tried.
Sources == { <<"a">>, <<"a", "_", "b">> }
Ids == { <<"c">>, <<"b", "_", "c">> }
ImgStates == {"ok", "missing", "corrupt"}
TxtStates == {"ok", "missing", "unreadable"}

\* One element of data, with what the filesystem holds at its two paths.
Records == [source : Sources, id : Ids, img : ImgStates, txt : TxtStates]

Digit(d) == CASE d = 0 -> "0" [] d = 1 -> "1" [] d = 2 -> "2" [] d = 3 -> "3"
              [] d = 4 -> "4" [] d = 5 -> "5" [] d = 6 -> "6" [] d = 7 -> "7"
              [] d = 8 -> "8" [] d = 9 -> "9"

RECURSIVE Decimal(_)
Decimal(n) == IF n < 10 THEN <<Digit(n)>> ELSE Decimal(n \div 10) \o <<Digit(n % 10)>>

RECURSIVE Zeros(_)
Zeros(k) == IF k <= 0 THEN <<>> ELSE <<"0">> \o Zeros(k - 1)

\* format(n, "0{w}d") for n >= 0: the decimal digits, zero-padded to at least w.
ZeroPad(n, w) == Zeros(w - Len(Decimal(n))) \o Decimal(n)

\* The file name the TarWriter is opened on, inside out_dir.
SinkName(idx) == <<"shard-">> \o ZeroPad(idx, 6) \o <<".tar">>

ShardName_Pad5(idx) == <<"shard-">> \o ZeroPad(idx, 5) \o <<".tar">>

\* shard_name, the name the index record carries.
ShardName(idx) == <<"shard-">> \o ZeroPad(idx, 6) \o <<".tar">>

PeriodicIndexName_Mod(count) ==
    <<"index-">> \o ZeroPad(count % parquet_flush_amount, 9) \o <<".parquet">>

\* index-{i+1:09d}.parquet
PeriodicIndexName(count) == <<"index-">> \o ZeroPad(count, 9) \o <<".parquet">>

FinalIndexName == <<"index-final.parquet">>

MakeKey(ex) == ex.source \o <<"_">> \o ex.id

\* wds.TarWriter(path): a new, empty, open archive.
TarWriter(path) == [path |-> path, samples |-> <<>>, closes |-> 0]

ShardFull_Off(n) == n > samples_per_shard

\* if in_shard >= samples_per_shard
ShardFull(n) == n >= samples_per_shard

\* if (i + 1) % parquet_flush_amount == 0
FlushDue(count) == count % parquet_flush_amount = 0

BufferAfterFlush_Kept(buffered) == buffered

\* index_records = [] after a periodic flush
BufferAfterFlush(buffered) == <<>>

InitShard ==
    /\ preprocessed \in BOOLEAN
    /\ samples_per_shard \in 1..MaxSps
    /\ parquet_flush_amount \in 1..MaxFlush
    /\ len_data \in 0..MaxLen
    /\ i = 0
    /\ index_records = <<>>
    /\ shard_idx = 0
    /\ in_shard = 0
    /\ tars = <<TarWriter(SinkName(0))>>
    /\ sink = 1
    /\ parquets = <<>>
    /\ pc = "loop"

\* The for loop has a next record.
HasNext == pc = "loop" /\ i < len_data

\* `continue`: the loop goes to the next record, nothing else changes.
Continue ==
    /\ i' = i + 1
    /\ UNCHANGED <<preprocessed, samples_per_shard, parquet_flush_amount, len_data,
                   index_records, shard_idx, in_shard, tars, sink, parquets, pc>>
    /\ UNCHANGED <<ingestVars, preVars, mainVars>>

\* An exception that leaves shard_dataset: the run ends where it stands.
Abort ==
    /\ pc' = "aborted"
    /\ UNCHANGED <<preprocessed, samples_per_shard, parquet_flush_amount, len_data,
                   i, index_records, shard_idx, in_shard, tars, sink, parquets>>
    /\ UNCHANGED <<ingestVars, preVars, mainVars>>

SkipMissing(ex) ==
    /\ HasNext
    /\ ~preprocessed
    /\ (ex.img = "missing" \/ ex.txt = "missing")
    /\ Continue

SkipImage_Uncaught(ex) ==
    /\ HasNext
    /\ ~preprocessed
    /\ ~(ex.img = "missing" \/ ex.txt = "missing")
    /\ ex.img = "corrupt"
    /\ Abort

SkipImage(ex) ==
    /\ HasNext
    /\ ~preprocessed
    /\ ~(ex.img = "missing" \/ ex.txt = "missing")
    /\ ex.img = "corrupt"
    /\ Continue

SkipText(ex) ==
    /\ HasNext
    /\ ~preprocessed
    /\ ~(ex.img = "missing" \/ ex.txt = "missing")
    /\ ex.img # "corrupt"
    /\ ex.txt = "unreadable"
    /\ Continue

\* The rest of the loop body: build the sample and its index record, write,
\* rotate the shard when full, flush the index on the cadence.
WriteSample(ex) ==
    /\ HasNext
    /\ preprocessed \/ (ex.img = "ok" /\ ex.txt = "ok")
    /\ LET key == MakeKey(ex)
           shard_name == ShardName(shard_idx)
           sample == [key |-> key, id |-> ex.id, source |-> ex.source]
           idx_record == [id |-> ex.id, source |-> ex.source,
                          key |-> key, shard |-> shard_name]
           buffered == Append(index_records, idx_record)
           written == [tars EXCEPT ![sink].samples = Append(@, sample)]
       IN  /\ IF ShardFull(in_shard + 1)
                THEN /\ tars' = Append([written EXCEPT ![sink].closes = @ + 1],
                                       TarWriter(SinkName(shard_idx + 1)))
                     /\ sink' = Len(tars) + 1
                     /\ shard_idx' = shard_idx + 1
                     /\ in_shard' = 0
                ELSE /\ tars' = written
                     /\ in_shard' = in_shard + 1
                     /\ UNCHANGED <<sink, shard_idx>>
           /\ IF FlushDue(i + 1)
                THEN /\ parquets' = Append(parquets,
                                           [path |-> PeriodicIndexName(i + 1),
                                            rows |-> buffered])
                     /\ index_records' = BufferAfterFlush(buffered)
                ELSE /\ index_records' = buffered
                     /\ UNCHANGED parquets
    /\ i' = i + 1
    /\ UNCHANGED <<preprocessed, samples_per_shard, parquet_flush_amount, len_data, pc>>
    /\ UNCHANGED <<ingestVars, preVars, mainVars>>

\* After the loop: the final index file if the buffer holds rows, then sink.close().
Finalize ==
    /\ pc = "loop"
    /\ i = len_data
    /\ parquets' = IF index_records # <<>>
                     THEN Append(parquets, [path |-> FinalIndexName,
                                            rows |-> index_records])
                     ELSE parquets
    /\ tars' = [tars EXCEPT ![sink].closes = @ + 1]
    /\ pc' = "done"
    /\ UNCHANGED <<preprocessed, samples_per_shard, parquet_flush_amount, len_data,
                   i, index_records, shard_idx, in_shard, sink>>
    /\ UNCHANGED <<ingestVars, preVars, mainVars>>

NextShard ==
    \/ \E ex \in Records : SkipMissing(ex)
    \/ \E ex \in Records : SkipImage(ex)
    \/ \E ex \in Records : SkipText(ex)
    \/ \E ex \in Records : WriteSample(ex)
    \/ Finalize

\* ==================================================== src/src/ingestion.py

AssetIds == {"i1", "i2"}
AnnIds == {"i1", "i2", "i3"}
ImgPaths == {"p", "q"}

\* One record of data.json.
Assets == [id : AssetIds, caption : {"x"}, image_path : {"p"}]
            \cup [id : AssetIds, caption : {"y"}, image_path : {"q"}]

\* similarity_score in hundredths; math.floor(score / .10) is its tens digit.
Scores == {5, 95}

\* One element of split.json's "annotations".
Annotations == [id : AnnIds, image_id : AnnIds, falsified : BOOLEAN,
                similarity_score : Scores]

SeqsUpTo(S, n) == UNION { [1..k -> S] : k \in 0..n }

\* json.load of data.json: a list of records, or a single object.
RawAssets == [kind : {"list"}, value : SeqsUpTo(Assets, MaxAssets)]
               \cup [kind : {"dict"}, value : Assets]

\* Python's d[k] = v on a dict d.
DictSet(d, k, v) == [x \in DOMAIN d \cup {k} |-> IF x = k THEN v ELSE d[x]]

\* d.get(k, 0)
GetOrZero(d, k) == IF k \in DOMAIN d THEN d[k] ELSE 0

RECURSIVE DictComp(_)
\* { entry["id"]: {"caption": ..., "image_path": ...} for entry in entries }
DictComp(entries) ==
    IF entries = <<>> THEN <<>>
    ELSE LET e == entries[Len(entries)]
         IN  DictSet(DictComp(SubSeq(entries, 1, Len(entries) - 1)), e.id,
                     [caption |-> e.caption, image_path |-> e.image_path])

RECURSIVE DictCompFirst(_)
DictCompFirst(entries) ==
    IF entries = <<>> THEN <<>>
    ELSE LET e == entries[1]
         IN  DictSet(DictCompFirst(Tail(entries)), e.id,
                     [caption |-> e.caption, image_path |-> e.image_path])

load_json_as_dict_FirstWins(raw) ==
    DictCompFirst(IF raw.kind = "dict" THEN <<raw.value>> ELSE raw.value)

load_json_as_dict(raw) ==
    DictComp(IF raw.kind = "dict" THEN <<raw.value>> ELSE raw.value)

normalize_entry_NoExists(caption_id, image_id, dd, label, split_str) ==
    IF image_id \notin DOMAIN dd \/ caption_id \notin DOMAIN dd
      THEN [kind |-> "raise"]
    ELSE [kind |-> "entry",
          value |-> [caption |-> dd[caption_id].caption,
                     img_path |-> <<"root_dir", dd[image_id].image_path>>,
                     label |-> label, split |-> split_str]]

\* The result of one call: a TypeError, None, or the entry.
normalize_entry(caption_id, image_id, dd, label, split_str) ==
    IF image_id \notin DOMAIN dd
      THEN [kind |-> "raise"]        \* image_entry["image_path"] on None
    ELSE IF dd[image_id].image_path \notin fs
      THEN [kind |-> "none"]
    ELSE IF caption_id \notin DOMAIN dd
      THEN [kind |-> "raise"]        \* caption_entry["caption"] on None
    ELSE [kind |-> "entry",
          value |-> [caption |-> dd[caption_id].caption,
                     img_path |-> <<"root_dir", dd[image_id].image_path>>,
                     label |-> label, split |-> split_str]]

NoAnnotation == [id |-> "-", image_id |-> "-", falsified |-> FALSE,
                 similarity_score |-> 0]

InitIngest ==
    /\ raw_assets \in RawAssets
    /\ data_dict = load_json_as_dict(raw_assets)
    /\ fs \in SUBSET ImgPaths
    /\ n_ann \in 0..MaxAnn
    /\ n_seen = 0
    /\ ann = NoAnnotation
    /\ norm = [kind |-> "unset"]
    /\ n_yielded = 0
    /\ score_dist = <<>>
    /\ ing_pc = "iter"

\* One turn of the for loop over the annotations.
IterStep(a) ==
    /\ ing_pc = "iter"
    /\ n_seen < n_ann
    /\ LET bucket == a.similarity_score \div 10
           res == normalize_entry(a.id, a.image_id, data_dict, a.falsified, "train")
       IN  /\ score_dist' = DictSet(score_dist, bucket, GetOrZero(score_dist, bucket) + 1)
           /\ norm' = res
           /\ n_yielded' = IF res.kind = "entry" THEN n_yielded + 1 ELSE n_yielded
           /\ ing_pc' = IF res.kind = "raise" THEN "raised" ELSE "iter"
    /\ ann' = a
    /\ n_seen' = n_seen + 1
    /\ UNCHANGED <<raw_assets, data_dict, fs, n_ann>>
    /\ UNCHANGED <<shardVars, preVars, mainVars>>

\* The annotations are exhausted: print(score_dist) and the generator ends.
IterDone ==
    /\ ing_pc = "iter"
    /\ n_seen = n_ann
    /\ ing_pc' = "done"
    /\ UNCHANGED <<raw_assets, data_dict, fs, n_ann, n_seen, ann, norm, n_yielded,
                   score_dist>>
    /\ UNCHANGED <<shardVars, preVars, mainVars>>

NextIngest ==
    \/ \E a \in Annotations : IterStep(a)
    \/ IterDone

\* ================================================ src/src/preprocessing.py

Chars == {"a", "B", " ", "\t", "\n"}

IsSpace(c) == c \in {" ", "\t", "\n"}

LowerChar(c) == IF c = "B" THEN "b" ELSE c

\* str.lower()
Lower(s) == [k \in 1..Len(s) |-> LowerChar(s[k])]

RECURSIVE LStrip(_)
LStrip(s) == IF s # <<>> /\ IsSpace(Head(s)) THEN LStrip(Tail(s)) ELSE s

RECURSIVE RStrip(_)
RStrip(s) == IF s # <<>> /\ IsSpace(s[Len(s)])
               THEN RStrip(SubSeq(s, 1, Len(s) - 1)) ELSE s

\* str.strip()
Strip(s) == RStrip(LStrip(s))

RECURSIVE SubSpaceRuns(_)
\* re.sub(r"\s+", " ", s): every maximal run of whitespace becomes one space.
SubSpaceRuns(s) ==
    IF s = <<>> THEN <<>>
    ELSE IF IsSpace(Head(s)) THEN <<" ">> \o SubSpaceRuns(LStrip(Tail(s)))
    ELSE <<Head(s)>> \o SubSpaceRuns(Tail(s))

clean_text_NoStrip(text) == SubSpaceRuns(Lower(text))

\* text.lower().strip(), then re.sub
clean_text(text) == SubSpaceRuns(Strip(Lower(text)))

\* The base64 string, or None when PIL cannot open or convert the file.
preprocess_image(img_path) ==
    IF img_path \in decodable
      THEN [none |-> FALSE, b64 |-> <<"jpeg", img_path>>]
      ELSE [none |-> TRUE]

\* The returned dict, as a record whose DOMAIN is the dict's keys.
preprocess_entry(e) ==
    LET img == preprocess_image(e.img_path)
    IN  IF img.none
          THEN [caption |-> clean_text(e.caption), label |-> e.label]
          ELSE [caption |-> clean_text(e.caption), label |-> e.label,
                image |-> img.b64, valid |-> TRUE]

Entries == [caption : SeqsUpTo(Chars, MaxStr), img_path : ImgPaths,
            label : BOOLEAN, split : {"train"}]

InitPre ==
    /\ entry \in Entries
    /\ decodable \in SUBSET ImgPaths
    /\ output = [unset |-> TRUE]
    /\ cleaned = <<>>
    /\ pre_pc = "entry"

PreprocessEntry ==
    /\ pre_pc = "entry"
    /\ output' = preprocess_entry(entry)
    /\ pre_pc' = "returned"
    /\ UNCHANGED <<entry, decodable, cleaned>>
    /\ UNCHANGED <<shardVars, ingestVars, mainVars>>

\* clean_text applied to the caption, then to its own result.
CleanText ==
    /\ Len(cleaned) < MaxClean
    /\ cleaned' = Append(cleaned, clean_text(IF cleaned = <<>> THEN entry.caption
                                             ELSE cleaned[Len(cleaned)]))
    /\ UNCHANGED <<entry, decodable, output, pre_pc>>
    /\ UNCHANGED <<shardVars, ingestVars, mainVars>>

NextPre ==
    \/ PreprocessEntry
    \/ CleanText

\* ------------------------------------------------ chunked_iter and main

MinOf(a, b) == IF a < b THEN a ELSE b

islice_Peek(s, n) ==
    [taken |-> SubSeq(s, 2, MinOf(n, Len(s))),
     rest |-> SubSeq(s, MinOf(n, Len(s)) + 1, Len(s))]

\* list(islice(iterator, n)): the next n items, or all that are left, and the
\* iterator after them.
islice(s, n) ==
    [taken |-> SubSeq(s, 1, MinOf(n, Len(s))),
     rest |-> SubSeq(s, MinOf(n, Len(s)) + 1, Len(s))]

\* f"preprocessed-shard-{shard_idx:05d}.parquet"
PartitionName(idx) == <<"preprocessed-shard-">> \o ZeroPad(idx, 5) \o <<".parquet">>

RECURSIVE MapFilterValid(_)
\* ds.map(preprocess_entry).filter(valid == True): the rows whose valid is True.
MapFilterValid(batch) ==
    IF batch = <<>> THEN <<>>
    ELSE LET row == preprocess_entry(Head(batch))
         IN  (IF "valid" \in DOMAIN row /\ row.valid THEN <<row>> ELSE <<>>)
             \o MapFilterValid(Tail(batch))

\* The entries iter_entries may yield here.
StreamEntries == [caption : {<<"B", " ">>}, img_path : ImgPaths,
                  label : {TRUE}, split : {"train"}]

InitMain ==
    /\ main_entries \in SeqsUpTo(StreamEntries, MaxEntries)
    /\ iterator = main_entries
    /\ size \in 1..MaxChunk
    /\ batches = <<>>
    /\ partitions = <<>>
    /\ main_shard_idx = 0
    /\ main_pc = "loop"

\* chunked_iter yields a batch and main's loop body writes its partition.
MainBatch ==
    /\ main_pc = "loop"
    /\ LET got == islice(iterator, size)
       IN  /\ got.taken # <<>>
           /\ iterator' = got.rest
           /\ batches' = Append(batches, got.taken)
           /\ partitions' = Append(partitions, [path |-> PartitionName(main_shard_idx),
                                          rows |-> MapFilterValid(got.taken)])
    /\ main_shard_idx' = main_shard_idx + 1
    /\ UNCHANGED <<main_entries, size, main_pc>>
    /\ UNCHANGED <<shardVars, ingestVars, preVars>>

\* The batch is empty: chunked_iter breaks and main logs its summary.
MainEnd ==
    /\ main_pc = "loop"
    /\ islice(iterator, size).taken = <<>>
    /\ iterator' = islice(iterator, size).rest
    /\ main_pc' = "done"
    /\ UNCHANGED <<main_entries, size, batches, partitions, main_shard_idx>>
    /\ UNCHANGED <<shardVars, ingestVars, preVars>>

NextMain ==
    \/ MainBatch
    \/ MainEnd

\* ========================================================= specifications
\* Each specification runs one program; the other programs' state stands still.

IdleShard ==
    /\ preprocessed = FALSE
    /\ samples_per_shard = 1
    /\ parquet_flush_amount = 1
    /\ len_data = 0
    /\ i = 0
    /\ index_records = <<>>
    /\ shard_idx = 0
    /\ in_shard = 0
    /\ tars = <<>>
    /\ sink = 0
    /\ parquets = <<>>
    /\ pc = "idle"

IdleIngest ==
    /\ raw_assets = [kind |-> "list", value |-> <<>>]
    /\ data_dict = <<>>
    /\ fs = {}
    /\ n_ann = 0
    /\ n_seen = 0
    /\ ann = NoAnnotation
    /\ norm = [kind |-> "unset"]
    /\ n_yielded = 0
    /\ score_dist = <<>>
    /\ ing_pc = "idle"

IdlePre ==
    /\ entry = [caption |-> <<>>, img_path |-> "p", label |-> FALSE, split |-> "train"]
    /\ decodable = {}
    /\ output = [unset |-> TRUE]
    /\ cleaned = <<>>
    /\ pre_pc = "idle"

IdleMain ==
    /\ main_entries = <<>>
    /\ iterator = <<>>
    /\ size = 1
    /\ batches = <<>>
    /\ partitions = <<>>
    /\ main_shard_idx = 0
    /\ main_pc = "idle"

\* main runs with the images that decode fixed; preprocess_entry's own run idle.
PreForMain ==
    /\ entry = [caption |-> <<>>, img_path |-> "p", label |-> FALSE, split |-> "train"]
    /\ decodable \in SUBSET ImgPaths
    /\ output = [unset |-> TRUE]
    /\ cleaned = <<>>
    /\ pre_pc = "idle"

ShardStart == InitShard /\ IdleIngest /\ IdlePre /\ IdleMain

IngestStart == IdleShard /\ InitIngest /\ IdlePre /\ IdleMain

PreStart == IdleShard /\ IdleIngest /\ InitPre /\ IdleMain

MainStart == IdleShard /\ IdleIngest /\ PreForMain /\ InitMain

SpecShard == ShardStart /\ [][NextShard]_vars

\* shard_dataset is a sequential program: it keeps running until it returns.
FairShard == SpecShard /\ WF_vars(NextShard)

SpecIngest == IngestStart /\ [][NextIngest]_vars

SpecPre == PreStart /\ [][NextPre]_vars

SpecMain == MainStart /\ [][NextMain]_vars

\* main is a sequential program: its loop keeps running until it ends.
FairMain == SpecMain /\ WF_vars(NextMain)

\* ================================================================= claims

RECURSIVE ConcatSamples(_)
\* Every sample in the archives, in the order written.
ConcatSamples(ts) ==
    IF ts = <<>> THEN <<>> ELSE Head(ts).samples \o ConcatSamples(Tail(ts))

RECURSIVE Located(_)
\* The same, each sample's key with the file name of the archive that holds it.
Located(ts) ==
    IF ts = <<>> THEN <<>>
    ELSE [k \in 1..Len(Head(ts).samples) |->
              [key |-> Head(ts).samples[k].key, path |-> Head(ts).path]]
         \o Located(Tail(ts))

RECURSIVE ConcatRows(_)
\* Every row in the index files, in the order written.
ConcatRows(ps) ==
    IF ps = <<>> THEN <<>> ELSE Head(ps).rows \o ConcatRows(Tail(ps))

\* The index rows that exist: those in files, and those still buffered.
IndexRows == ConcatRows(parquets) \o (IF pc = "done" THEN <<>> ELSE index_records)

RowAsSample(r) == [key |-> r.key, id |-> r.id, source |-> r.source]

WrittenCount == Len(ConcatSamples(tars))

CeilDiv(a, b) == (a + b - 1) \div b

PeriodicFiles == { k \in DOMAIN parquets : parquets[k].path # FinalIndexName }

FinalFiles == { k \in DOMAIN parquets : parquets[k].path = FinalIndexName }

\* C1: when the run has ended, the number of shard containers is
\* ceil(V / samples_per_shard) for V written samples, and the last one holds the
\* remainder, or samples_per_shard when V is an exact multiple (so it is not empty).
C1_ShardCountIsCeil ==
    pc = "done" =>
        /\ Len(tars) = CeilDiv(WrittenCount, samples_per_shard)
        /\ WrittenCount > 0 =>
             Len(tars[Len(tars)].samples) =
                 IF WrittenCount % samples_per_shard = 0
                   THEN samples_per_shard
                   ELSE WrittenCount % samples_per_shard

\* C2: when the run has ended over N records, there are floor(N / F) periodic
\* index files, one at every multiple of F up to N whether or not the record there
\* was skipped, and a final file exactly when the buffer is non-empty at the end.
C2_FlushCountIsFloor ==
    pc = "done" =>
        /\ Cardinality(PeriodicFiles) = len_data \div parquet_flush_amount
        /\ \A m \in 1..len_data :
             m % parquet_flush_amount = 0 =>
                 \E k \in DOMAIN parquets : parquets[k].path = PeriodicIndexName(m)
        /\ (FinalFiles # {}) <=> (index_records # <<>>)

\* C3: every index row's key is the key of exactly one written sample, in
\* exactly one shard, and there are as many rows as samples (none orphaned).
C3_KeysUnique ==
    /\ Len(IndexRows) = WrittenCount
    /\ \A r \in DOMAIN IndexRows :
         Cardinality({ w \in DOMAIN Located(tars) :
                          Located(tars)[w].key = IndexRows[r].key }) = 1

\* C5: the index files taken together, and the buffer while the loop runs, hold
\* exactly one row per written sample, in the order the samples were written,
\* and no index file is written twice.
C5_EveryRowOnce ==
    /\ [k \in DOMAIN IndexRows |-> RowAsSample(IndexRows[k])] = ConcatSamples(tars)
    /\ \A a, b \in DOMAIN parquets : parquets[a].path = parquets[b].path => a = b
    /\ Cardinality(FinalFiles) <= 1
    /\ pc = "done" /\ index_records # <<>> =>
         /\ FinalFiles = {Len(parquets)}
         /\ parquets[Len(parquets)].rows = index_records

C5_Witness ==
    /\ pc = "done"
    /\ PeriodicFiles # {}
    /\ FinalFiles # {}
    /\ i > WrittenCount

\* C6: no container ever holds more than samples_per_shard samples; a container
\* that reached capacity is closed and followed by the container with the next
\* index, only the last container is open and it is under capacity, and when the
\* run has ended every container has been closed exactly once.
C6_ShardCapacity ==
    /\ shard_idx = Len(tars) - 1
    /\ sink = Len(tars)
    /\ \A k \in DOMAIN tars :
         /\ Len(tars[k].samples) <= samples_per_shard
         /\ tars[k].path = SinkName(k - 1)
         /\ k < Len(tars) =>
              Len(tars[k].samples) = samples_per_shard /\ tars[k].closes = 1
         /\ k = Len(tars) =>
              /\ Len(tars[k].samples) = in_shard
              /\ in_shard < samples_per_shard
              /\ tars[k].closes = (IF pc = "done" THEN 1 ELSE 0)

C6_Witness ==
    /\ pc = "done"
    /\ Len(tars) >= 2
    /\ samples_per_shard >= 2
    /\ in_shard > 0

\* C7: the k-th index row belongs to the k-th written sample, and its shard field
\* is the file name of the container that holds that sample.
C7_ShardFieldIsContainer ==
    /\ Len(IndexRows) = Len(Located(tars))
    /\ \A k \in DOMAIN IndexRows :
         /\ IndexRows[k].key = Located(tars)[k].key
         /\ IndexRows[k].shard = Located(tars)[k].path

\* A row of the sample that filled the first container, and a row after it.
C7_Witness ==
    /\ Len(tars) >= 2
    /\ Len(IndexRows) > samples_per_shard
    /\ IndexRows[samples_per_shard].shard = SinkName(0)
    /\ IndexRows[samples_per_shard + 1].shard = SinkName(1)

\* C9: whatever each record's outcome, the loop takes the records one at a
\* time in order, the run reaches its end with every record taken, the buffer
\* flushed if it held rows and the open shard closed, and nothing happens after.
C9_RunCompletes ==
    /\ <>(pc = "done")
    /\ [](pc \in {"loop", "done"})
    /\ [][pc' = "loop" => i' = i + 1]_shardVars
    /\ [](pc = "done" =>
            /\ i = len_data
            /\ tars[sink].closes = 1
            /\ index_records # <<>> => parquets[Len(parquets)].rows = index_records)
    /\ [][pc # "done"]_shardVars

C9_Witness ==
    /\ pc = "done"
    /\ WrittenCount > 0
    /\ i > WrittenCount + 1

\* C4: an annotation whose caption id or image id is not in the asset mapping
\* is skipped: normalize_entry returns the skip value and iter_entries goes on.
C4_MissingIdIsSkip ==
    (n_seen > 0 /\ (ann.id \notin DOMAIN data_dict \/ ann.image_id \notin DOMAIN data_dict))
        => (norm.kind = "none" /\ ing_pc # "raised")

\* C8: preprocess_entry returns the cleaned caption and the label; the image
\* and valid = TRUE when the image decodes; no image and valid = FALSE when not.
C8_InvalidIsMarked ==
    pre_pc = "returned" =>
        /\ output.caption = clean_text(entry.caption)
        /\ output.label = entry.label
        /\ "valid" \in DOMAIN output
        /\ IF entry.img_path \in decodable
             THEN output.valid = TRUE /\ "image" \in DOMAIN output
             ELSE output.valid = FALSE /\ "image" \notin DOMAIN output

IsClean(s) ==
    /\ \A k \in DOMAIN s : LowerChar(s[k]) = s[k]
    /\ s # <<>> => ~IsSpace(s[1]) /\ ~IsSpace(s[Len(s)])
    /\ \A k \in 1..(Len(s) - 1) : ~(IsSpace(s[k]) /\ IsSpace(s[k + 1]))

\* C10: clean_text's result is lowercase, has no whitespace at either end and no
\* two whitespace characters in a row, and clean_text leaves it as it is.
C10_CleanTextIdempotent ==
    \A k \in DOMAIN cleaned :
        /\ IsClean(cleaned[k])
        /\ k > 1 => cleaned[k] = cleaned[k - 1]

\* A caption with an upper-case letter and an inner run of whitespace, cleaned twice.
C10_Witness ==
    /\ Len(cleaned) = 2
    /\ Len(entry.caption) = 4
    /\ entry.caption[1] = "B"
    /\ IsSpace(entry.caption[2]) /\ IsSpace(entry.caption[3])
    /\ entry.caption[4] = "a"
    /\ cleaned[1] = <<"b", " ", "a">>

\* The records json.load gave, as the list load_json_as_dict walks.
AssetList == IF raw_assets.kind = "dict" THEN <<raw_assets.value>> ELSE raw_assets.value

\* The position of the last record of AssetList with this id.
LastWithId(id) ==
    CHOOSE k \in DOMAIN AssetList :
        /\ AssetList[k].id = id
        /\ \A j \in DOMAIN AssetList : AssetList[j].id = id => j <= k

\* C11: normalize_entry gives an entry only when the caption id and the image id
\* are both in the asset mapping and the image path exists, and the entry is built
\* from those two assets; when both ids resolve and the image path does not exist
\* it returns the skip value without raising, nothing is yielded for the
\* annotation and the loop goes on.
C11_EntryOnlyWhenResolved ==
    [][n_seen' = n_seen + 1 =>
         LET a == ann'
             both == a.id \in DOMAIN data_dict /\ a.image_id \in DOMAIN data_dict
         IN  /\ norm'.kind = "entry" =>
                  /\ both
                  /\ data_dict[a.image_id].image_path \in fs
                  /\ norm'.value.caption = data_dict[a.id].caption
                  /\ norm'.value.img_path =
                         <<"root_dir", data_dict[a.image_id].image_path>>
                  /\ norm'.value.label = a.falsified
                  /\ n_yielded' = n_yielded + 1
             /\ (both /\ data_dict[a.image_id].image_path \notin fs) =>
                  /\ norm'.kind = "none"
                  /\ n_yielded' = n_yielded
                  /\ ing_pc' = "iter"
    ]_ingestVars

\* An annotation whose image is not on disk was skipped, and the next one yielded.
C11_Witness ==
    /\ n_seen = 2
    /\ n_yielded = 1
    /\ norm.kind = "entry"
    /\ \E id \in DOMAIN data_dict : data_dict[id].image_path \notin fs
    /\ DOMAIN data_dict = AssetIds

\* C12: the asset mapping has one entry per id that occurs in data.json, holding
\* the caption and image_path of the last record with that id; a single top-level
\* object counts as a list of one record.
C12_LastWriteWins ==
    /\ DOMAIN data_dict = { AssetList[k].id : k \in DOMAIN AssetList }
    /\ \A id \in DOMAIN data_dict :
         /\ data_dict[id].caption = AssetList[LastWithId(id)].caption
         /\ data_dict[id].image_path = AssetList[LastWithId(id)].image_path
    /\ raw_assets.kind = "dict" =>
         data_dict = [id \in {raw_assets.value.id} |->
                         [caption |-> raw_assets.value.caption,
                          image_path |-> raw_assets.value.image_path]]

\* Two records with one id and different captions; the loop has run on the mapping.
C12_Witness ==
    /\ raw_assets.kind = "list"
    /\ Len(raw_assets.value) = 2
    /\ raw_assets.value[1].id = raw_assets.value[2].id
    /\ raw_assets.value[1].caption # raw_assets.value[2].caption
    /\ n_seen > 0

\* C13: the index buffer never holds more than parquet_flush_amount records,
\* neither between loop turns nor at the moment it is written to a file.
C13_BufferBounded ==
    /\ Len(index_records) <= parquet_flush_amount
    /\ \A k \in PeriodicFiles : Len(parquets[k].rows) <= parquet_flush_amount

\* C14: two written samples with the same key have the same source and the
\* same id.
C14_KeyInjective ==
    \A a, b \in DOMAIN ConcatSamples(tars) :
        ConcatSamples(tars)[a].key = ConcatSamples(tars)[b].key =>
            /\ ConcatSamples(tars)[a].source = ConcatSamples(tars)[b].source
            /\ ConcatSamples(tars)[a].id = ConcatSamples(tars)[b].id

\* C16: every index file written holds at least one row; the periodic files
\* are named by strictly increasing processed counts, each a multiple of
\* parquet_flush_amount, and no file name is written twice.
C16_IndexFilesDistinct ==
    /\ \A k \in DOMAIN parquets : Len(parquets[k].rows) >= 1
    /\ \A k \in PeriodicFiles :
         \E m \in 1..i : /\ m % parquet_flush_amount = 0
                         /\ parquets[k].path = PeriodicIndexName(m)
    /\ \A a, b \in PeriodicFiles :
         a < b => \E m, n \in 1..i : /\ m < n
                                     /\ parquets[a].path = PeriodicIndexName(m)
                                     /\ parquets[b].path = PeriodicIndexName(n)
    /\ \A a, b \in DOMAIN parquets : a # b => parquets[a].path # parquets[b].path

\* Two periodic files, the second after a skipped record, in a finished run.
C16_Witness ==
    /\ pc = "done"
    /\ Cardinality(PeriodicFiles) >= 2
    /\ parquet_flush_amount >= 2
    /\ i > WrittenCount

RECURSIVE Flatten(_)
Flatten(bs) == IF bs = <<>> THEN <<>> ELSE Head(bs) \o Flatten(Tail(bs))

\* C15: the batches, in order, followed by what the iterator has left, are the
\* entry stream; every batch is non-empty and at most size long, every batch but
\* the last is exactly size long; one partition is written per batch, numbered
\* from 0 without gaps; the run ends, with ceil(n / size) partitions for n entries.
C15_ChunksPartition ==
    /\ <>(main_pc = "done")
    /\ [](/\ Flatten(batches) \o iterator = main_entries
          /\ \A k \in DOMAIN batches :
               /\ Len(batches[k]) >= 1
               /\ Len(batches[k]) <= size
               /\ k < Len(batches) => Len(batches[k]) = size
          /\ Len(partitions) = Len(batches)
          /\ main_shard_idx = Len(partitions)
          /\ \A k \in DOMAIN partitions : partitions[k].path = PartitionName(k - 1)
          /\ main_pc = "done" =>
               /\ iterator = <<>>
               /\ Len(partitions) = CeilDiv(Len(main_entries), size))

\* A finished run of several batches, the last one short.
C15_Witness ==
    /\ main_pc = "done"
    /\ Len(batches) >= 2
    /\ size >= 2
    /\ Len(batches[Len(batches)]) < size

====
